---------------------------- MODULE Spec2Model ----------------------------
(***************************************************************************)
(* NovaBrief, ObtainEmlLambda/lambda_function.py: the rendering of one     *)
(* e-mail message as a self-contained HTML document                        *)
(* (extract_html_with_embedded_images) and the part of lambda_handler that *)
(* consumes its result.                                                    *)
(*                                                                         *)
(* NovaBrief, SQS-Bitacoras/SQS-Bitacoras.py and SQS-Bitacoras.py: the two *)
(* versions of the queue handler that summarises a stored document and     *)
(* mails the summary (lambda_handler, send_email).                         *)
(*                                                                         *)
(* A Python str is a sequence of Unicode code points, a Python bytes a     *)
(* sequence of numbers in 0..255.  A message is the sequence of parts that *)
(* msg.walk() yields, in that order.                                       *)
(***************************************************************************)
EXTENDS Integers, Sequences, FiniteSets, TLC

VARIABLES
    msg,              \* the parts msg.walk() yields, in order
    pc,               \* the position in extract_html_with_embedded_images / lambda_handler
    html_body,        \* the local html_body (line 23)
    plain_text,       \* the local plain_text (line 70), None until a text/plain part is decoded
    payload,          \* the argument of the running or last safe_decode call (lines 56, 67)
    enc_i,            \* safe_decode's position in encodings_to_try (line 36), 1-based
    embedded_images,  \* the dict embedded_images (line 24), its entries in insertion order
    img_i,            \* the position of the walk of line 88, 1-based
    img_key,          \* the local img_key (line 100), None until an image part is seen
    sub_i,            \* the position of the loop of line 110 in embedded_images, 1-based
    selected_body,    \* html_body as it reaches line 87, None before
    response,         \* what lambda_handler answers: a status code, "AttributeError", or "" before
    version,          \* which SQS-Bitacoras file runs: "folder" (SQS-Bitacoras/SQS-Bitacoras.py) or "root"
    event,            \* event['Records']: the object key of each record's body, as S3 wrote it
    rec_i,            \* the position of the loop over event['Records'], 1-based
    sqs_pc,           \* the position in the SQS lambda_handler / send_email
    file_key_original,\* the local file_key_original, None before the first record
    extension,        \* the local extension, None before the first record
    temp_file_path,   \* the temp_file_path of the running record, None when there is none
    stored_file,      \* the bytes s3.download_file wrote at temp_file_path
    file_content,     \* the local file_content, None before the file is read
    summary,          \* the summary argument of the running send_email call
    downloads,        \* the records (positions) s3.download_file was called for
    converse_calls,   \* the records (positions) bedrock.converse was called for
    smtp_attempts,    \* what the with-block of send_email handed to SMTP, in order
    removed,          \* the records (positions) whose temporary file os.remove deleted
    sqs_response      \* what the SQS lambda_handler ends with: "400", "None", an exception, "" before

eml_vars == <<msg, pc, html_body, plain_text, payload, enc_i, embedded_images,
              img_i, img_key, sub_i, selected_body, response>>

sqs_vars == <<version, event, rec_i, sqs_pc, file_key_original, extension,
              temp_file_path, stored_file, file_content, summary, downloads,
              converse_calls, smtp_attempts, removed, sqs_response>>

vars == <<eml_vars, sqs_vars>>

-----------------------------------------------------------------------------
(* Bounds of the model. *)

\* the longest message of the body-selection family, in parts
MaxParts == 3
\* the most image parts that follow the body part in the image family
MaxImages == 3
\* the longest payload of the decoding family, in bytes
MaxBytes == 2
\* the most records of one SQS event
MaxRecords == 2

-----------------------------------------------------------------------------
(* Text. *)

\* Python's None: no str and no bytes is equal to it
None == << -1 >>

Printable1 == "#$%&'()*+,-./0123456789:;<=>?@ABCDEFGHIJKLMNOPQRSTUVWXYZ["
Printable2 == "abcdefghijklmnopqrstuvwxyz{|}~"

\* the code point of a one-character literal
Ord(c) ==
    IF c = "\n" THEN 10
    ELSE IF c = " " THEN 32
    ELSE IF c = "!" THEN 33
    ELSE IF c = "\"" THEN 34
    ELSE IF c = "]" THEN 93
    ELSE IF c = "^" THEN 94
    ELSE IF c = "_" THEN 95
    ELSE IF \E i \in 1..Len(Printable1) : SubSeq(Printable1, i, i) = c
         THEN 34 + (CHOOSE i \in 1..Len(Printable1) : SubSeq(Printable1, i, i) = c)
    ELSE 96 + (CHOOSE i \in 1..Len(Printable2) : SubSeq(Printable2, i, i) = c)

\* a str literal of the source as its code points
S(lit) == [i \in 1..Len(lit) |-> Ord(SubSeq(lit, i, i))]

\* s[i:]
From(s, i) == SubSeq(s, i, Len(s))

\* s.startswith(p)
startswith(s, p) == Len(p) <= Len(s) /\ SubSeq(s, 1, Len(p)) = p

\* p occurs in s at position i
MatchAt(s, i, p) ==
    /\ i + Len(p) - 1 <= Len(s)
    /\ \A j \in 1..Len(p) : s[i + j - 1] = p[j]

\* p in s
Contains(s, p) == \E i \in 1..(Len(s) + 1) : MatchAt(s, i, p)

\* the first occurrence of p in s at or after position i, 0 when there is none
Find(s, i, p) ==
    IF \E j \in i..(Len(s) + 1) : MatchAt(s, j, p)
    THEN CHOOSE j \in i..(Len(s) + 1) :
             MatchAt(s, j, p) /\ \A k \in i..(j - 1) : ~MatchAt(s, k, p)
    ELSE 0

\* str.replace(old, new) for a non-empty old: the occurrences of old, found
\* left to right without overlap, each replaced by new
RECURSIVE ReplaceFrom(_, _, _, _)
ReplaceFrom(s, i, old, new) ==
    LET j == Find(s, i, old) IN
    IF j = 0 THEN From(s, i)
    ELSE SubSeq(s, i, j - 1) \o new \o ReplaceFrom(s, j + Len(old), old, new)

\* str.replace('', new): new before every character and at the end
Interleave(s, new) ==
    [k \in 1..(Len(s) * (Len(new) + 1) + Len(new)) |->
        IF (k - 1) % (Len(new) + 1) < Len(new)
        THEN new[((k - 1) % (Len(new) + 1)) + 1]
        ELSE s[((k - 1) \div (Len(new) + 1)) + 1]]

\* str.replace(old, new)
replace(s, old, new) ==
    IF old = <<>> THEN Interleave(s, new) ELSE ReplaceFrom(s, 1, old, new)

\* str.isspace() of one character
Whitespace ==
    (9..13) \cup (28..32) \cup {133, 160, 5760} \cup (8192..8202)
        \cup {8232, 8233, 8239, 8287, 12288}

\* str.strip(chars): s without its longest prefix and suffix made of chars
strip_chars(s, chars) ==
    IF \A i \in 1..Len(s) : s[i] \in chars THEN <<>>
    ELSE LET first == CHOOSE i \in 1..Len(s) :
                          s[i] \notin chars /\ \A j \in 1..(i - 1) : s[j] \in chars
             last == CHOOSE i \in 1..Len(s) :
                         s[i] \notin chars /\ \A j \in (i + 1)..Len(s) : s[j] \in chars
         IN  SubSeq(s, first, last)

\* str.strip()
strip(s) == strip_chars(s, Whitespace)

\* str.lower() of one character, for the characters the decoders below produce
\* from one byte, and for the two characters beyond them that lower to ASCII
LowerChar(c) ==
    IF c \in 65..90 THEN <<c + 32>>
    ELSE IF c \in (192..222) \ {215} THEN <<c + 32>>
    ELSE IF c = 304 THEN <<105, 775>>
    ELSE IF c = 8490 THEN <<107>>
    ELSE IF c \in {338, 352, 381} THEN <<c + 1>>
    ELSE IF c = 376 THEN <<255>>
    ELSE <<c>>

\* str.lower()
RECURSIVE lower(_)
lower(s) ==
    IF s = <<>> THEN <<>>
    ELSE IF Len(s) = 1 THEN LowerChar(s[1])
    ELSE lower(SubSeq(s, 1, Len(s) \div 2)) \o lower(From(s, (Len(s) \div 2) + 1))

\* str(n) of a natural number
RECURSIVE str(_)
str(n) == IF n < 10 THEN <<48 + n>> ELSE str(n \div 10) \o <<48 + (n % 10)>>

-----------------------------------------------------------------------------
(* bytes.decode(encoding), errors='strict', for the encodings of line 27.   *)

\* a UTF-8 continuation byte at position i of b
Cont(b, i) == i <= Len(b) /\ b[i] \in 128..191

\* the values the byte after the lead byte c may take in well-formed UTF-8
SecondRange(c) ==
    IF c = 224 THEN 160..191
    ELSE IF c = 237 THEN 128..159
    ELSE IF c = 240 THEN 144..191
    ELSE IF c = 244 THEN 128..143
    ELSE 128..191

\* the length of the UTF-8 sequence the lead byte c announces, 0 for no lead byte
SeqLen(c) ==
    IF c < 128 THEN 1
    ELSE IF c \in 194..223 THEN 2
    ELSE IF c \in 224..239 THEN 3
    ELSE IF c \in 240..244 THEN 4
    ELSE 0

\* a well-formed UTF-8 sequence starts at position i of b
WellFormedAt(b, i) ==
    LET n == SeqLen(b[i]) IN
    /\ n > 0
    /\ n > 1 => (i + 1 <= Len(b) /\ b[i + 1] \in SecondRange(b[i]))
    /\ \A k \in 2..(n - 1) : Cont(b, i + k)

\* the code point of the well-formed sequence at position i of b
CodePointAt(b, i) ==
    LET n == SeqLen(b[i]) IN
    IF n = 1 THEN b[i]
    ELSE IF n = 2 THEN (b[i] - 192) * 64 + (b[i + 1] - 128)
    ELSE IF n = 3 THEN (b[i] - 224) * 4096 + (b[i + 1] - 128) * 64 + (b[i + 2] - 128)
    ELSE (b[i] - 240) * 262144 + (b[i + 1] - 128) * 4096
             + (b[i + 2] - 128) * 64 + (b[i + 3] - 128)

RECURSIVE Utf8Valid(_, _)
Utf8Valid(b, i) ==
    IF i > Len(b) THEN TRUE
    ELSE IF WellFormedAt(b, i) THEN Utf8Valid(b, i + SeqLen(b[i]))
    ELSE FALSE

RECURSIVE Utf8Text(_, _)
Utf8Text(b, i) ==
    IF i > Len(b) THEN <<>>
    ELSE <<CodePointAt(b, i)>> \o Utf8Text(b, i + SeqLen(b[i]))

\* the bytes of the ill-formed sequence at position i that errors='replace'
\* turns into one U+FFFD: the longest prefix of a well-formed sequence
MaximalSubpart(b, i) ==
    LET n == SeqLen(b[i]) IN
    IF n < 2 \/ ~(i + 1 <= Len(b) /\ b[i + 1] \in SecondRange(b[i])) THEN 1
    ELSE IF n = 2 \/ ~Cont(b, i + 2) THEN 2
    ELSE IF n = 3 \/ ~Cont(b, i + 3) THEN 3
    ELSE 4

\* payload.decode('utf-8', errors='replace')
RECURSIVE Utf8Replace(_, _)
Utf8Replace(b, i) ==
    IF i > Len(b) THEN <<>>
    ELSE IF WellFormedAt(b, i)
    THEN <<CodePointAt(b, i)>> \o Utf8Replace(b, i + SeqLen(b[i]))
    ELSE <<65533>> \o Utf8Replace(b, i + MaximalSubpart(b, i))

\* the UTF-8 signature that utf-8-sig drops from the start
BOM == <<239, 187, 191>>

SkipBOM(b) == IF startswith(b, BOM) THEN From(b, 4) ELSE b

\* the bytes cp1252 leaves undefined
Cp1252Undefined == {129, 141, 143, 144, 157}

\* cp1252's characters for the bytes 128..159
Cp1252High ==
    <<8364, 129, 8218, 402, 8222, 8230, 8224, 8225, 710, 8240, 352, 8249, 338, 141,
      381, 143, 144, 8216, 8217, 8220, 8221, 8226, 8211, 8212, 732, 8482, 353, 8250,
      339, 157, 382, 376>>

Cp1252Char(x) == IF x \in 128..159 THEN Cp1252High[x - 127] ELSE x

\* iso-8859-15's characters where it differs from latin-1
Latin9Char(x) ==
    IF x = 164 THEN 8364
    ELSE IF x = 166 THEN 352
    ELSE IF x = 168 THEN 353
    ELSE IF x = 180 THEN 381
    ELSE IF x = 184 THEN 382
    ELSE IF x = 188 THEN 338
    ELSE IF x = 189 THEN 339
    ELSE IF x = 190 THEN 376
    ELSE x

\* payload.decode(encoding) returns, rather than raising UnicodeDecodeError
CanDecode(encoding, b) ==
    IF encoding = "utf-8" THEN Utf8Valid(b, 1)
    ELSE IF encoding = "utf-8-sig" THEN Utf8Valid(SkipBOM(b), 1)
    ELSE IF encoding = "cp1252" THEN \A i \in 1..Len(b) : b[i] \notin Cp1252Undefined
    ELSE IF encoding = "ascii" THEN \A i \in 1..Len(b) : b[i] < 128
    ELSE TRUE

\* what payload.decode(encoding) returns then
Decode(encoding, b) ==
    IF encoding = "utf-8" THEN Utf8Text(b, 1)
    ELSE IF encoding = "utf-8-sig" THEN Utf8Text(SkipBOM(b), 1)
    ELSE IF encoding = "cp1252" THEN [i \in 1..Len(b) |-> Cp1252Char(b[i])]
    ELSE IF encoding = "iso-8859-15" THEN [i \in 1..Len(b) |-> Latin9Char(b[i])]
    ELSE b

\* the list with cp1252 put before the two UTF-8 codecs
encodings_Cp1252First ==
    <<"cp1252", "utf-8", "utf-8-sig", "latin-1", "iso-8859-1", "iso-8859-15", "ascii">>

\* the list encodings (lines 27-32)
encodings ==
    <<"utf-8", "utf-8-sig", "cp1252", "latin-1", "iso-8859-1", "iso-8859-15", "ascii">>

\* safe_decode once its loop has run out (lines 45-50): the lossy decode, which
\* raises nothing, so that the latin-1 decode of line 50 is never taken
LossyDecode(b) == Utf8Replace(b, 1)

-----------------------------------------------------------------------------
(* base64.b64encode(image_data).decode('utf-8') (line 96).                   *)

Base64Alphabet ==
    S("ABCDEFGHIJKLMNOPQRSTUVWXYZabcdefghijklmnopqrstuvwxyz0123456789+/")

B64(v) == Base64Alphabet[v + 1]

RECURSIVE b64encode(_)
b64encode(d) ==
    IF d = <<>> THEN <<>>
    ELSE IF Len(d) = 1
    THEN <<B64(d[1] \div 4), B64((d[1] % 4) * 16), 61, 61>>
    ELSE IF Len(d) = 2
    THEN <<B64(d[1] \div 4), B64((d[1] % 4) * 16 + d[2] \div 16),
           B64((d[2] % 16) * 4), 61>>
    ELSE <<B64(d[1] \div 4), B64((d[1] % 4) * 16 + d[2] \div 16),
           B64((d[2] % 16) * 4 + d[3] \div 64), B64(d[3] % 64)>>
             \o b64encode(From(d, 4))

-----------------------------------------------------------------------------
(* Messages: what the email package hands to the function.                  *)

\* one part: its content type (lower case, "maintype/subtype"), its decoded
\* payload, its Content-ID header (None when it has none) and its file name
\* (None when it has none)
Part(ctype, data, cid, fname) ==
    [ctype |-> ctype, payload |-> data, content_id |-> cid, filename |-> fname]

\* part.get_content_type()
get_content_type(part) == part.ctype

\* part.get_content_maintype(): the content type up to its "/"
get_content_maintype(part) ==
    LET slash == CHOOSE i \in 1..Len(part.ctype) : part.ctype[i] = 47 /\
                     \A j \in 1..(i - 1) : part.ctype[j] # 47
    IN  SubSeq(part.ctype, 1, slash - 1)

\* part.get('Content-ID', '')
get_content_id(part) == IF part.content_id = None THEN <<>> ELSE part.content_id

\* all sequences over set of length lo..hi
SeqsOf(set, lo, hi) == UNION {[1..n -> set] : n \in lo..hi}

HtmlPart(data) == Part(S("text/html"), data, None, None)
PlainPart(data) == Part(S("text/plain"), data, None, None)
Attachment == Part(S("application/pdf"), S("%PDF"), None, S("f.pdf"))
ImageX == Part(S("image/png"), <<137>>, S("<x>"), None)
ImageXY == Part(S("image/gif"), <<71>>, S("<xy>"), S("z"))
ImageZ == Part(S("image/gif"), <<207>>, None, S("z"))
ImageY == Part(S("image/png"), <<71, 73>>, None, S("y"))
ImageAnon == Part(S("image/gif"), <<>>, None, None)

\* the parts of the body-selection family
SelectionParts ==
    {HtmlPart(<<>>), HtmlPart(S("<p>x</p>")), PlainPart(S("x")), PlainPart(<<>>),
     Attachment, ImageX}

\* the image parts of the image family
ImageParts == {ImageX, ImageXY, ImageZ, ImageY, ImageAnon}

\* the body parts of the image family
BodyParts ==
    {HtmlPart(S("cid:xy")),
     HtmlPart(S("<img src=\"cid:x\">y")),
     HtmlPart(S(" <HTML>xy image_1")),
     HtmlPart(S("z")),
     PlainPart(S("Hello x"))}

\* the bytes of the decoding family: ASCII, a two-byte UTF-8 sequence, a byte
\* that is no UTF-8, a byte cp1252 leaves undefined, a byte latin-1 and
\* iso-8859-15 read differently
DecodeBytes == {60, 195, 169, 233, 129, 164}

DecodePayloads ==
    SeqsOf(DecodeBytes, 0, MaxBytes) \cup {BOM \o b : b \in SeqsOf(DecodeBytes, 0, 1)}

Messages ==
    SeqsOf(SelectionParts, 1, MaxParts)
        \cup {<<b>> \o imgs : b \in BodyParts, imgs \in SeqsOf(ImageParts, 0, MaxImages)}
        \cup {<<HtmlPart(b)>> : b \in DecodePayloads}
        \cup {<<PlainPart(b)>> : b \in DecodePayloads}

-----------------------------------------------------------------------------
(* extract_html_with_embedded_images (lines 19-131).                        *)

\* the truth value of a str or None (if html_body:, content_id or filename)
Truthy(v) == v # None /\ v # <<>>

\* there is a part of this content type, and the first one
HasPart(m, ctype) == \E i \in 1..Len(m) : get_content_type(m[i]) = ctype

FirstPart(m, ctype) ==
    m[CHOOSE i \in 1..Len(m) :
        /\ get_content_type(m[i]) = ctype
        /\ \A j \in 1..(i - 1) : get_content_type(m[j]) # ctype]

\* the f-string of lines 73-83
PlainTextPage(text) ==
    S("\n                <!DOCTYPE html>\n                <html>\n                <head>\n                    <meta charset=\"UTF-8\">\n                </head>\n                <body>\n                    <pre>")
        \o text
        \o S("</pre>\n                </body>\n                </html>\n                ")

\* the f-string of lines 119-129: the text before {html_body}, the text after
HtmlPageBefore ==
    S("\n        <!DOCTYPE html>\n        <html>\n        <head>\n            <meta charset=\"UTF-8\">\n        </head>\n        <body>\n            ")

HtmlPageAfter == S("\n        </body>\n        </html>\n        ")

HtmlPage(body) == HtmlPageBefore \o body \o HtmlPageAfter

\* line 118 without its two strip() calls
OpensAsDocument_NoStrip(body) ==
    \/ startswith(lower(body), S("<!doctype"))
    \/ startswith(lower(body), S("<html"))

\* the condition of line 118 negated: the text already opens as a document
OpensAsDocument(body) ==
    \/ startswith(lower(strip(body)), S("<!doctype"))
    \/ startswith(lower(strip(body)), S("<html"))

\* lines 117-129 with the test of line 118 always false: nothing is wrapped
Finalize_NeverWraps(body) == body

\* lines 117-129 on a str
Finalize(body) == IF ~OpensAsDocument(body) THEN HtmlPage(body) ELSE body

\* the URI without its ";base64" marker
DataURI_NoBase64(img) == S("data:") \o img.mime_type \o S(",") \o img.data

\* the data: URI of lines 113 and 115
DataURI(img) == S("data:") \o img.mime_type \o S(";base64,") \o img.data

\* lines 112-113 alone: the bare key of line 114 is not replaced
Substitute_CidOnly(body, img) == replace(body, S("cid:") \o img.key, DataURI(img))

\* the two replacements of lines 112-115 for one image
Substitute(body, img) ==
    replace(replace(body, S("cid:") \o img.key, DataURI(img)), img.key, DataURI(img))

\* f'image_{len(embedded_images)}' (line 100)
SyntheticKey(images) == S("image_") \o str(Len(images))

\* line 100 for one image part, images being embedded_images so far
ImageKey(part, images) ==
    LET content_id == strip_chars(get_content_id(part), {60, 62})
    IN  IF Truthy(content_id) THEN content_id
        ELSE IF Truthy(part.filename) THEN part.filename
        ELSE SyntheticKey(images)

\* embedded_images[img_key] = {...} (lines 103-107): a new key is appended, a
\* key already there keeps its place and takes the new value
Store(images, entry) ==
    IF \E i \in 1..Len(images) : images[i].key = entry.key
    THEN [i \in 1..Len(images) |-> IF images[i].key = entry.key THEN entry ELSE images[i]]
    ELSE Append(images, entry)

Init ==
    /\ msg \in Messages
    /\ pc = "find_html"
    /\ html_body = None
    /\ plain_text = None
    /\ payload = None
    /\ enc_i = 1
    /\ embedded_images = <<>>
    /\ img_i = 1
    /\ img_key = None
    /\ sub_i = 1
    /\ selected_body = None
    /\ response = ""
    /\ version = "root"
    /\ event = <<>>
    /\ rec_i = 1
    /\ sqs_pc = "idle"
    /\ file_key_original = None
    /\ extension = None
    /\ temp_file_path = None
    /\ stored_file = None
    /\ file_content = None
    /\ summary = None
    /\ downloads = {}
    /\ converse_calls = {}
    /\ smtp_attempts = <<>>
    /\ removed = {}
    /\ sqs_response = ""

\* lines 53-56: the walk up to the first text/html part, whose payload goes to
\* safe_decode; without one, on to line 63
FindHtml ==
    /\ pc = "find_html"
    /\ IF HasPart(msg, S("text/html"))
       THEN /\ payload' = FirstPart(msg, S("text/html")).payload
            /\ enc_i' = 1
            /\ pc' = "decode_html"
       ELSE /\ pc' = "find_plain"
            /\ UNCHANGED <<payload, enc_i>>
    /\ UNCHANGED <<msg, html_body, plain_text, embedded_images, img_i, img_key,
                   sub_i, selected_body, response>>
    /\ UNCHANGED sqs_vars

\* lines 36-43: the encoding in turn raises UnicodeDecodeError, the loop continues
DecodeFails ==
    /\ pc \in {"decode_html", "decode_plain"}
    /\ enc_i <= Len(encodings)
    /\ ~CanDecode(encodings[enc_i], payload)
    /\ enc_i' = enc_i + 1
    /\ UNCHANGED <<msg, pc, html_body, plain_text, payload, embedded_images,
                   img_i, img_key, sub_i, selected_body, response>>
    /\ UNCHANGED sqs_vars

\* what safe_decode returns at this step: the decode of line 39, or of line 47
\* once the loop has run out
decoded ==
    IF enc_i <= Len(encodings) THEN Decode(encodings[enc_i], payload)
    ELSE LossyDecode(payload)

\* lines 39-41 or 45-47: safe_decode returns; line 59 and break, or lines 70-84
\* and break
DecodeReturns ==
    /\ pc \in {"decode_html", "decode_plain"}
    /\ IF enc_i <= Len(encodings) THEN CanDecode(encodings[enc_i], payload) ELSE TRUE
    /\ IF pc = "decode_html"
       THEN /\ html_body' = decoded
            /\ pc' = "find_plain"
            /\ UNCHANGED plain_text
       ELSE /\ plain_text' = decoded
            /\ html_body' = PlainTextPage(decoded)
            /\ pc' = "images"
    /\ UNCHANGED <<msg, payload, enc_i, embedded_images, img_i, img_key, sub_i,
                   selected_body, response>>
    /\ UNCHANGED sqs_vars

\* lines 63-67: with no html_body, the walk up to the first text/plain part
FindPlain ==
    /\ pc = "find_plain"
    /\ IF ~Truthy(html_body) /\ HasPart(msg, S("text/plain"))
       THEN /\ payload' = FirstPart(msg, S("text/plain")).payload
            /\ enc_i' = 1
            /\ pc' = "decode_plain"
       ELSE /\ pc' = "images"
            /\ UNCHANGED <<payload, enc_i>>
    /\ UNCHANGED <<msg, html_body, plain_text, embedded_images, img_i, img_key,
                   sub_i, selected_body, response>>
    /\ UNCHANGED sqs_vars

\* line 87: with a body, on to the walk of line 88, else to line 118
ImagesIf ==
    /\ pc = "images"
    /\ selected_body' = html_body
    /\ pc' = IF Truthy(html_body) THEN "collect" ELSE "finalize"
    /\ img_i' = 1
    /\ UNCHANGED <<msg, html_body, plain_text, payload, enc_i, embedded_images,
                   img_key, sub_i, response>>
    /\ UNCHANGED sqs_vars

\* lines 88-107 for a part that is an image
CollectImage ==
    /\ pc = "collect"
    /\ img_i <= Len(msg)
    /\ get_content_maintype(msg[img_i]) = S("image")
    /\ LET part == msg[img_i]
           key == ImageKey(part, embedded_images)
       IN  /\ img_key' = key
           /\ embedded_images' =
                  Store(embedded_images,
                        [key |-> key,
                         data |-> b64encode(part.payload),
                         mime_type |-> get_content_type(part),
                         filename |-> IF Truthy(part.filename) THEN part.filename
                                      ELSE key])
    /\ img_i' = img_i + 1
    /\ UNCHANGED <<msg, pc, html_body, plain_text, payload, enc_i, sub_i,
                   selected_body, response>>
    /\ UNCHANGED sqs_vars

\* lines 88-89 for a part that is no image
SkipPart ==
    /\ pc = "collect"
    /\ img_i <= Len(msg)
    /\ get_content_maintype(msg[img_i]) # S("image")
    /\ img_i' = img_i + 1
    /\ UNCHANGED <<msg, pc, html_body, plain_text, payload, enc_i, embedded_images,
                   img_key, sub_i, selected_body, response>>
    /\ UNCHANGED sqs_vars

\* the walk of line 88 is over: on to the loop of line 110
CollectDone ==
    /\ pc = "collect"
    /\ img_i > Len(msg)
    /\ pc' = "substitute"
    /\ sub_i' = 1
    /\ UNCHANGED <<msg, html_body, plain_text, payload, enc_i, embedded_images,
                   img_i, img_key, selected_body, response>>
    /\ UNCHANGED sqs_vars

\* lines 110-115 for one entry of embedded_images
SubstituteImage ==
    /\ pc = "substitute"
    /\ sub_i <= Len(embedded_images)
    /\ html_body' = Substitute(html_body, embedded_images[sub_i])
    /\ sub_i' = sub_i + 1
    /\ UNCHANGED <<msg, pc, plain_text, payload, enc_i, embedded_images, img_i,
                   img_key, selected_body, response>>
    /\ UNCHANGED sqs_vars

\* the loop of line 110 is over
SubstituteDone ==
    /\ pc = "substitute"
    /\ sub_i > Len(embedded_images)
    /\ pc' = "finalize"
    /\ UNCHANGED <<msg, html_body, plain_text, payload, enc_i, embedded_images,
                   img_i, img_key, sub_i, selected_body, response>>
    /\ UNCHANGED sqs_vars

\* lines 117-131: html_body.strip() of None raises AttributeError; a str is
\* wrapped unless it opens as a document, and returned
DocumentFinalization ==
    /\ pc = "finalize"
    /\ IF html_body = None
       THEN /\ pc' = "raised"
            /\ UNCHANGED html_body
       ELSE /\ pc' = "returned"
            /\ html_body' = Finalize(html_body)
    /\ UNCHANGED <<msg, plain_text, payload, enc_i, embedded_images, img_i,
                   img_key, sub_i, selected_body, response>>
    /\ UNCHANGED sqs_vars

-----------------------------------------------------------------------------
(* lambda_handler from line 161 on.                                         *)

\* lines 163-200: a truthy result is stored (200, or 500 when put_object
\* raises), any other result is answered 404
HandlerResponds ==
    /\ pc = "returned"
    /\ \E stored \in BOOLEAN :
           response' = IF ~Truthy(html_body) THEN "404"
                       ELSE IF stored THEN "200" ELSE "500"
    /\ pc' = "done"
    /\ UNCHANGED <<msg, html_body, plain_text, payload, enc_i, embedded_images,
                   img_i, img_key, sub_i, selected_body>>
    /\ UNCHANGED sqs_vars

\* line 161: nothing catches what extract_html_with_embedded_images raises
HandlerCrashes ==
    /\ pc = "raised"
    /\ response' = "AttributeError"
    /\ pc' = "done"
    /\ UNCHANGED <<msg, html_body, plain_text, payload, enc_i, embedded_images,
                   img_i, img_key, sub_i, selected_body>>
    /\ UNCHANGED sqs_vars

Next ==
    \/ FindHtml
    \/ DecodeFails
    \/ DecodeReturns
    \/ FindPlain
    \/ ImagesIf
    \/ CollectImage
    \/ SkipPart
    \/ CollectDone
    \/ SubstituteImage
    \/ SubstituteDone
    \/ DocumentFinalization
    \/ HandlerResponds
    \/ HandlerCrashes

Spec == Init /\ [][Next]_vars

-----------------------------------------------------------------------------
(* SQS-Bitacoras: the text operations of lambda_handler and send_email.     *)

\* the value of a hexadecimal digit, -1 for any other character
HexVal(c) ==
    IF c \in 48..57 THEN c - 48
    ELSE IF c \in 65..70 THEN c - 55
    ELSE IF c \in 97..102 THEN c - 87
    ELSE -1

\* s[i] opens a percent escape: '%' and two hexadecimal digits
EscapeAt(s, i) ==
    IF i + 2 <= Len(s)
    THEN s[i] = 37 /\ HexVal(s[i + 1]) >= 0 /\ HexVal(s[i + 2]) >= 0
    ELSE FALSE

\* urllib's unquote_to_bytes on the ASCII text s from position i: every escape
\* becomes its byte, every other character stays
RECURSIVE unquote_to_bytes(_, _)
unquote_to_bytes(s, i) ==
    IF i > Len(s) THEN <<>>
    ELSE IF EscapeAt(s, i)
         THEN <<(16 * HexVal(s[i + 1])) + HexVal(s[i + 2])>> \o unquote_to_bytes(s, i + 3)
         ELSE <<s[i]>> \o unquote_to_bytes(s, i + 1)

\* urllib's unquote_plus (line 123): '+' becomes a space, then the escapes are
\* decoded as UTF-8 with errors='replace'; a text without '%' is left as it is
unquote_plus(s) ==
    LET spaced == replace(s, S("+"), S(" "))
    IN  IF ~Contains(spaced, S("%")) THEN spaced
        ELSE Utf8Replace(unquote_to_bytes(spaced, 1), 1)

\* s.split(sep)[-1] for a one-character sep: what follows the last sep, all of
\* s when it holds none
LastField(s, sep) ==
    LET at == {i \in 1..Len(s) : s[i] = sep}
    IN  IF at = {} THEN s
        ELSE From(s, (CHOOSE i \in at : \A j \in at : j <= i) + 1)

endswith(s, p) == Len(p) <= Len(s) /\ From(s, Len(s) - Len(p) + 1) = p

\* the list allowed_extensions (line 33 of both files)
allowed_extensions ==
    <<S("docx"), S("csv"), S("html"), S("txt"), S("pdf"), S("md"), S("doc"),
      S("xlsx"), S("xls")>>

\* the test of lines 133 / 98, negated: extension.lower() in allowed_extensions
Allowed(ext) == \E i \in 1..Len(allowed_extensions) : allowed_extensions[i] = lower(ext)

\* the list encodings_to_try of SQS-Bitacoras/SQS-Bitacoras.py (lines 56-61, 165-170)
encodings_to_try ==
    <<"utf-8", "utf-8-sig", "cp1252", "latin-1", "iso-8859-1", "iso-8859-15", "ascii">>

\* the loops of lines 63-69 and 172-179: the file read as text in the first
\* encoding from position i on that decodes it; None when none does, the
\* variable then staying unbound
RECURSIVE read_text(_, _)
read_text(b, i) ==
    IF i > Len(encodings_to_try) THEN None
    ELSE IF CanDecode(encodings_to_try[i], b) THEN Decode(encodings_to_try[i], b)
    ELSE read_text(b, i + 1)

\* lines 53-78 of the folder version for a key ending in .html: open(None)
\* raises TypeError, caught at line 76; an empty text is read again as bytes
html_content_of(path, b) ==
    IF path = None THEN <<>>
    ELSE IF ~Truthy(read_text(b, 1)) THEN LossyDecode(b)
    ELSE read_text(b, 1)

-----------------------------------------------------------------------------
(* SQS-Bitacoras: the events.                                               *)

\* object keys as S3 writes them in its notification, URL-encoded
EventKeys ==
    {S("a.exe"), S("a.html"), S("a.txt"), S("a%2EHTML"), S("r+1"), S("a.tar.gz")}

\* what the stored object may hold
FileContents == {<<>>, S("<p>"), <<233>>}

Events == SeqsOf(EventKeys, 1, MaxRecords)

-----------------------------------------------------------------------------
(* SQS-Bitacoras: lambda_handler and send_email.                            *)

InitSQS ==
    /\ msg = <<>>
    /\ pc = "idle"
    /\ html_body = None
    /\ plain_text = None
    /\ payload = None
    /\ enc_i = 1
    /\ embedded_images = <<>>
    /\ img_i = 1
    /\ img_key = None
    /\ sub_i = 1
    /\ selected_body = None
    /\ response = ""
    /\ version \in {"folder", "root"}
    /\ event \in Events
    /\ rec_i = 1
    /\ sqs_pc = "record"
    /\ file_key_original = None
    /\ extension = None
    /\ temp_file_path = None
    /\ stored_file = None
    /\ file_content = None
    /\ summary = None
    /\ downloads = {}
    /\ converse_calls = {}
    /\ smtp_attempts = <<>>
    /\ removed = {}
    /\ sqs_response = ""

\* lines 117-130 / 82-95: the next record, its key unquoted and its extension
TakeRecord ==
    /\ sqs_pc = "record"
    /\ rec_i <= Len(event)
    /\ file_key_original' = unquote_plus(event[rec_i])
    /\ extension' = LastField(unquote_plus(event[rec_i]), 46)
    /\ sqs_pc' = "check"
    /\ UNCHANGED <<version, event, rec_i, temp_file_path, stored_file, file_content,
                   summary, downloads, converse_calls, smtp_attempts, removed,
                   sqs_response>>
    /\ UNCHANGED eml_vars

\* the loop of line 117 / 82 is over: lambda_handler falls off its end
RecordsDone ==
    /\ sqs_pc = "record"
    /\ rec_i > Len(event)
    /\ sqs_pc' = "returned"
    /\ sqs_response' = "None"
    /\ UNCHANGED <<version, event, rec_i, file_key_original, extension,
                   temp_file_path, stored_file, file_content, summary, downloads,
                   converse_calls, smtp_attempts, removed>>
    /\ UNCHANGED eml_vars

\* lines 133-152 / 98-116: the extension is not allowed; the error message is
\* passed to send_email with temp_file_path=None
RejectExtension ==
    /\ sqs_pc = "check"
    /\ ~Allowed(extension)
    /\ summary' = <<"error_message", file_key_original, extension>>
    /\ temp_file_path' = None
    /\ sqs_pc' = "send_email"
    /\ UNCHANGED <<version, event, rec_i, file_key_original, extension, stored_file,
                   file_content, downloads, converse_calls, smtp_attempts, removed,
                   sqs_response>>
    /\ UNCHANGED eml_vars

\* lines 158-162 / 123-127: the temporary file is created and the object
\* downloaded into it
DownloadFile ==
    /\ sqs_pc = "check"
    /\ Allowed(extension)
    /\ temp_file_path' = S("/tmp/tmp") \o str(rec_i)
    /\ downloads' = downloads \cup {rec_i}
    /\ \E b \in FileContents : stored_file' = b
    /\ sqs_pc' = "read"
    /\ UNCHANGED <<version, event, rec_i, file_key_original, extension, file_content,
                   summary, converse_calls, smtp_attempts, removed, sqs_response>>
    /\ UNCHANGED eml_vars

\* line 162 / 127: s3.download_file raises, and nothing catches it
DownloadRaises ==
    /\ sqs_pc = "check"
    /\ Allowed(extension)
    /\ temp_file_path' = S("/tmp/tmp") \o str(rec_i)
    /\ downloads' = downloads \cup {rec_i}
    /\ sqs_pc' = "raised"
    /\ sqs_response' = "ClientError"
    /\ UNCHANGED <<version, event, rec_i, file_key_original, extension, stored_file,
                   file_content, summary, converse_calls, smtp_attempts, removed>>
    /\ UNCHANGED eml_vars

\* lines 164-179 of the folder version: the file read as text; lines 128-132
\* of the root version: the file read as bytes
ReadFile ==
    /\ sqs_pc = "read"
    /\ file_content' = IF version = "folder" THEN read_text(stored_file, 1)
                       ELSE stored_file
    /\ sqs_pc' = "converse"
    /\ UNCHANGED <<version, event, rec_i, file_key_original, extension,
                   temp_file_path, stored_file, summary, downloads, converse_calls,
                   smtp_attempts, removed, sqs_response>>
    /\ UNCHANGED eml_vars

\* lines 181-217 / 134-179: the model answers, and its summary (inside the
\* success message, in the root version) is passed to send_email
ConverseAnswers ==
    /\ sqs_pc = "converse"
    /\ converse_calls' = converse_calls \cup {rec_i}
    /\ summary' = <<IF version = "folder" THEN "summary" ELSE "success_message",
                    file_key_original, extension>>
    /\ sqs_pc' = "send_email"
    /\ UNCHANGED <<version, event, rec_i, file_key_original, extension,
                   temp_file_path, stored_file, file_content, downloads,
                   smtp_attempts, removed, sqs_response>>
    /\ UNCHANGED eml_vars

\* line 186 / 139: bedrock.converse raises, and nothing catches it
ConverseRaises ==
    /\ sqs_pc = "converse"
    /\ converse_calls' = converse_calls \cup {rec_i}
    /\ sqs_pc' = "raised"
    /\ sqs_response' = "ClientError"
    /\ UNCHANGED <<version, event, rec_i, file_key_original, extension,
                   temp_file_path, stored_file, file_content, summary, downloads,
                   smtp_attempts, removed>>
    /\ UNCHANGED eml_vars

\* send_email of the folder version (lines 40-113) for a key ending in .html:
\* html_content is bound, the message is built and handed to SMTP, whose
\* failure is logged and swallowed (lines 112-113)
SendEmailHtml ==
    /\ sqs_pc = "send_email"
    /\ version = "folder"
    /\ endswith(lower(file_key_original), S(".html"))
    /\ \E delivered \in BOOLEAN :
           smtp_attempts' =
               Append(smtp_attempts,
                      [summary |-> summary,
                       original |-> html_content_of(temp_file_path, stored_file),
                       attached |-> FALSE,
                       delivered |-> delivered])
    /\ sqs_pc' = "sent"
    /\ UNCHANGED <<version, event, rec_i, file_key_original, extension,
                   temp_file_path, stored_file, file_content, summary, downloads,
                   converse_calls, removed, sqs_response>>
    /\ UNCHANGED eml_vars

\* send_email of the folder version for any other key: line 52 binds
\* html_body_content, lines 53-78 are skipped, and the f-string of lines 88-100
\* reads html_content, which is unbound; nothing catches the UnboundLocalError
SendEmailUnbound ==
    /\ sqs_pc = "send_email"
    /\ version = "folder"
    /\ ~endswith(lower(file_key_original), S(".html"))
    /\ sqs_pc' = "raised"
    /\ sqs_response' = "UnboundLocalError"
    /\ UNCHANGED <<version, event, rec_i, file_key_original, extension,
                   temp_file_path, stored_file, file_content, summary, downloads,
                   converse_calls, smtp_attempts, removed>>
    /\ UNCHANGED eml_vars

\* send_email of the root version (lines 39-78): the summary as plain text, the
\* file attached when temp_file_path is given, the message handed to SMTP,
\* whose failure is printed and swallowed (lines 77-78)
SendEmailAttaches ==
    /\ sqs_pc = "send_email"
    /\ version = "root"
    /\ \E delivered \in BOOLEAN :
           smtp_attempts' =
               Append(smtp_attempts,
                      [summary |-> summary,
                       original |-> None,
                       attached |-> Truthy(temp_file_path),
                       delivered |-> delivered])
    /\ sqs_pc' = "sent"
    /\ UNCHANGED <<version, event, rec_i, file_key_original, extension,
                   temp_file_path, stored_file, file_content, summary, downloads,
                   converse_calls, removed, sqs_response>>
    /\ UNCHANGED eml_vars

\* lines 153-156 / 117-120: after the error e-mail, statusCode 400
Return400 ==
    /\ sqs_pc = "sent"
    /\ summary[1] = "error_message"
    /\ sqs_pc' = "returned"
    /\ sqs_response' = "400"
    /\ UNCHANGED <<version, event, rec_i, file_key_original, extension,
                   temp_file_path, stored_file, file_content, summary, downloads,
                   converse_calls, smtp_attempts, removed>>
    /\ UNCHANGED eml_vars

\* line 220 / 182: after the summary e-mail, the temporary file is removed and
\* the loop goes on
RemoveTempFile ==
    /\ sqs_pc = "sent"
    /\ summary[1] # "error_message"
    /\ removed' = removed \cup {rec_i}
    /\ rec_i' = rec_i + 1
    /\ sqs_pc' = "record"
    /\ UNCHANGED <<version, event, file_key_original, extension, temp_file_path,
                   stored_file, file_content, summary, downloads, converse_calls,
                   smtp_attempts, sqs_response>>
    /\ UNCHANGED eml_vars

NextSQS ==
    \/ TakeRecord
    \/ RecordsDone
    \/ RejectExtension
    \/ DownloadFile
    \/ DownloadRaises
    \/ ReadFile
    \/ ConverseAnswers
    \/ ConverseRaises
    \/ SendEmailHtml
    \/ SendEmailUnbound
    \/ SendEmailAttaches
    \/ Return400
    \/ RemoveTempFile

SpecSQS == InitSQS /\ [][NextSQS]_vars

-----------------------------------------------------------------------------
(* Properties.                                                              *)

\* extract_html_with_embedded_images has ended, by return or by raise
Ended == pc \in {"returned", "raised", "done"}

\* the substitution loop is over and line 118 not yet run
Substituted == pc = "finalize" /\ Truthy(selected_body)

\* C1: a message with no text/html and no text/plain part makes
\* extract_html_with_embedded_images return None; it raises nothing.
C1_NoBodyReturnsNone ==
    (Ended /\ ~HasPart(msg, S("text/html")) /\ ~HasPart(msg, S("text/plain")))
        => (pc # "raised" /\ response # "AttributeError" /\ html_body = None)

\* C2: when the message has a text/html part, the body comes from the first
\* text/html part, whatever its payload, and no text/plain part is decoded or
\* wrapped.
C2_HtmlPartIsSelected ==
    (HasPart(msg, S("text/html")) /\ pc \notin {"find_html", "decode_html", "find_plain"})
        => (plain_text = None /\ payload = FirstPart(msg, S("text/html")).payload)

\* the `cid:<key>` reference and the `data:<mime-type>;base64,<data>` URI the
\* claims speak of, for one entry of embedded_images
CidRef(img) == S("cid:") \o img.key

ClaimedURI(img) == S("data:") \o img.mime_type \o S(";base64,") \o img.data

\* some occurrence of x and some occurrence of y can share characters of a
\* text: one holds the other, or an end of one is a start of the other
Overlaps(x, y) ==
    \/ Contains(x, y)
    \/ Contains(y, x)
    \/ \E n \in 1..Len(x) :
           n <= Len(y) /\ SubSeq(x, Len(x) - n + 1, Len(x)) = SubSeq(y, 1, n)
    \/ \E n \in 1..Len(y) :
           n <= Len(x) /\ SubSeq(y, Len(y) - n + 1, Len(y)) = SubSeq(x, 1, n)

\* no key, and no cid: reference, overlaps the data: URI of any collected image
KeysClearOfURIs(images) ==
    \A i, j \in 1..Len(images) :
        /\ ~Overlaps(images[i].key, ClaimedURI(images[j]))
        /\ ~Overlaps(CidRef(images[i]), ClaimedURI(images[j]))

\* no key overlaps the cid: reference of another key
KeysClearOfKeys(images) ==
    \A i, j \in 1..Len(images) :
        i # j => ~Overlaps(images[i].key, CidRef(images[j]))

ReturnedUnwrapped == pc = "returned" /\ ~startswith(html_body, HtmlPageBefore)

\* the key overlaps the text that lines 119-129 put around the body
OverlapsWrapper(key) == Overlaps(key, HtmlPageBefore) \/ Overlaps(key, HtmlPageAfter)

\* C4 as stated: no collected key occurs anywhere in the document returned,
\* the inserted data: URIs included.
C4_NoKeyInDocument ==
    pc = "returned" =>
        \A i \in 1..Len(embedded_images) : ~Contains(html_body, embedded_images[i].key)

\* C4 as amended: no collected key occurs in the document returned, provided
\* no collected key overlaps the data: URI of a collected image and, when
\* lines 119-129 wrap the body, no collected key overlaps the wrapper's text.
C4_NoClearKeyInDocument ==
    (/\ pc = "returned"
     /\ \A i, j \in 1..Len(embedded_images) :
            ~Overlaps(embedded_images[i].key, ClaimedURI(embedded_images[j]))
     /\ ReturnedUnwrapped
            \/ \A i \in 1..Len(embedded_images) :
                   ~OverlapsWrapper(embedded_images[i].key))
        => \A i \in 1..Len(embedded_images) : ~Contains(html_body, embedded_images[i].key)

\* C4's case: a document is returned whose body held the bare key of a
\* collected image, and the keys are clear of the URIs and of the wrapper
C4_Witness ==
    /\ pc = "returned"
    /\ Len(embedded_images) >= 2
    /\ \A i, j \in 1..Len(embedded_images) :
           ~Overlaps(embedded_images[i].key, ClaimedURI(embedded_images[j]))
    /\ \A i \in 1..Len(embedded_images) :
           ~OverlapsWrapper(embedded_images[i].key)
    /\ \E i \in 1..Len(embedded_images) :
           /\ Contains(selected_body, embedded_images[i].key)
           /\ ~Contains(selected_body, CidRef(embedded_images[i]))

\* C5: when a collected key is a proper substring of another collected key,
\* the references to the longer key are replaced by the longer key's data:
\* URI, whichever of the two was collected first; so where the body
\* referenced the longer key the text holds that URI after the substitution.
C5_LongerKeyIntact ==
    (Substituted /\ Len(embedded_images) = 2)
        => \A i, j \in 1..2 :
               (/\ embedded_images[i].key # embedded_images[j].key
                /\ Contains(embedded_images[j].key, embedded_images[i].key)
                /\ Contains(selected_body, embedded_images[j].key))
                   => Contains(html_body, ClaimedURI(embedded_images[j]))

\* s opens with p once upper case is lowered, with nothing before p (a
\* character lowers to one character or more, so the first Len(p) characters
\* of s decide it)
OpensWith(s, p) ==
    startswith(lower(SubSeq(s, 1, IF Len(p) < Len(s) THEN Len(p) ELSE Len(s))), p)

\* s opens with p once upper case is lowered and leading whitespace is passed
OpensAfterWhitespaceWith(s, p) ==
    \E i \in 1..(Len(s) + 1) :
        /\ \A j \in 1..(i - 1) : s[j] \in Whitespace
        /\ OpensWith(From(s, i), p)

\* C6 as stated: every string returned begins with a doctype declaration or
\* an <html tag, upper or lower case.
C6_BeginsWithDoctype ==
    pc = "returned" =>
        (OpensWith(html_body, S("<!doctype")) \/ OpensWith(html_body, S("<html")))

\* C6 as amended: every string returned begins, after its leading
\* whitespace, with a doctype declaration or an <html tag, upper or lower
\* case.
C6_BeginsWithDoctypeAfterWhitespace ==
    pc = "returned" =>
        \/ OpensAfterWhitespaceWith(html_body, S("<!doctype"))
        \/ OpensAfterWhitespaceWith(html_body, S("<html"))

\* C6's case: an HTML body that did not open as a document has been wrapped
\* by lines 119-129 and returned
C6_Witness ==
    /\ pc = "returned"
    /\ plain_text = None
    /\ Truthy(selected_body)
    /\ html_body = HtmlPage(selected_body)

\* C7: lines 117-129 applied to what they produced, or to the page lines
\* 73-83 made of a plain text, change nothing: no document is wrapped twice.
C7_FinalizationIdempotent ==
    /\ (pc = "finalize" /\ html_body # None)
           => Finalize(Finalize(html_body)) = Finalize(html_body)
    /\ pc = "returned" => Finalize(html_body) = html_body
    /\ (pc = "finalize" /\ plain_text # None /\ html_body = PlainTextPage(plain_text))
           => Finalize(html_body) = html_body

\* C7's case: the page lines 73-83 made of a plain text has gone through
\* lines 117-129 and is returned as it was
C7_Witness ==
    /\ pc = "returned"
    /\ plain_text # None
    /\ html_body = PlainTextPage(plain_text)

\* the order of the encodings as the claim gives it
ClaimedOrder ==
    <<"utf-8", "utf-8-sig", "cp1252", "latin-1", "iso-8859-1", "iso-8859-15", "ascii">>

\* the decode of b under the first encoding of the claimed order that decodes it
FirstDecode(b) ==
    LET first == CHOOSE i \in 1..Len(ClaimedOrder) :
                     /\ CanDecode(ClaimedOrder[i], b)
                     /\ \A j \in 1..(i - 1) : ~CanDecode(ClaimedOrder[j], b)
    IN  Decode(ClaimedOrder[first], b)

\* C8: safe_decode returns, for every payload, the decode under the first
\* of utf-8, utf-8-sig, cp1252, latin-1, iso-8859-1, iso-8859-15, ascii that
\* decodes the payload; its loop always ends inside the list, so that the
\* lossy and single-byte decodes are not taken and nothing is raised.
C8_SafeDecodeOrdered ==
    /\ enc_i <= Len(ClaimedOrder)
    /\ pc \in {"decode_html", "decode_plain"}
           => \E i \in enc_i..Len(ClaimedOrder) : CanDecode(ClaimedOrder[i], payload)
    /\ (pc = "find_plain" /\ payload # None) => html_body = FirstDecode(payload)
    /\ plain_text # None => plain_text = FirstDecode(payload)

\* C8's case: safe_decode has returned the latin-1 decode of a payload that
\* utf-8, utf-8-sig and cp1252 refused
C8_Witness ==
    /\ pc = "find_plain"
    /\ payload # None
    /\ ~CanDecode("utf-8", payload)
    /\ ~CanDecode("cp1252", payload)
    /\ html_body = Decode("latin-1", payload)

\* the key the claim gives the i-th part of the walk, an image part
ClaimedKey(m, i) ==
    IF m[i].content_id # None THEN strip_chars(m[i].content_id, {60, 62})
    ELSE IF m[i].filename # None THEN m[i].filename
    ELSE S("image_")
             \o str(Cardinality({j \in 1..(i - 1) : get_content_maintype(m[j]) = S("image")}))

\* C9: an image part is recorded under its content-id without <>, else its
\* file name, else image_<n>, n being the number of image parts walked before
\* it, also when earlier image parts share a key.
C9_KeyOfImagePart ==
    (/\ pc \in {"collect", "substitute"}
     /\ img_i > 1
     /\ get_content_maintype(msg[img_i - 1]) = S("image"))
        => img_key = ClaimedKey(msg, img_i - 1)

\* C10: for a message with a text/plain part and no text/html part, the
\* document returned is the page of lines 73-83 around the decoded plain
\* text: the text in its one <pre> block, the page not wrapped again.
C10_PlainTextInPre ==
    (pc = "returned" /\ HasPart(msg, S("text/plain")) /\ ~HasPart(msg, S("text/html")))
        => (plain_text # None /\ html_body = PlainTextPage(plain_text))

-----------------------------------------------------------------------------
(* SQS-Bitacoras.                                                           *)

\* the SQS lambda_handler has ended, by return or by raise
SqsEnded == sqs_pc \in {"returned", "raised"}

\* C11: in both SQS handlers, when the handler ends on a record whose
\* lower-cased extension is not in allowed_extensions, it has handed the error
\* message to SMTP through send_email (send_email did not raise before the
\* message was built, temp_file_path being None and the key not ending in
\* .html), it returns statusCode 400, and it has neither downloaded that
\* record's file nor called the model for it.
C11_UnsupportedExtensionAnswered ==
    (SqsEnded /\ extension # None /\ ~Allowed(extension)) =>
        /\ sqs_response = "400"
        /\ \E i \in 1..Len(smtp_attempts) :
               smtp_attempts[i].summary = <<"error_message", file_key_original, extension>>
        /\ rec_i \notin downloads
        /\ rec_i \notin converse_calls

=============================================================================
